---- MODULE Spec2Model ----
(***************************************************************************)
(* Model of freecad_mcp/server.py: the FreeCADConnection client, the       *)
(* module-level connection singleton, the screenshot guard, the envelope   *)
(* helper and the MCP tool handlers.                                       *)
(*                                                                         *)
(* One action models one whole call: main(), the startup half and the      *)
(* shutdown half of server_lifespan, and every @mcp.tool() handler.  The   *)
(* remote FreeCAD addon is the environment: each remote request gets its   *)
(* outcome from a small set chosen with \E.                                *)
(*                                                                         *)
(* Further specifications look at one part each: SpecClient calls the      *)
(* guard on its own, SpecPair repeats an invocation under the other        *)
(* feedback mode, SpecSketch and SpecConstraint give the sketch handlers   *)
(* the effect of their scripts on the remote document, and SpecRace runs   *)
(* get_freecad_connection() line by line for overlapping callers.          *)
(*                                                                         *)
(* A text is a tuple of fragments: an f-string "Failed: {e}" is the tuple  *)
(* <<"Failed: ", e>>, so a formatted value stays visible inside the text.  *)
(***************************************************************************)
EXTENDS Integers, Sequences, FiniteSets, TLC

VARIABLES only_text_feedback, freecad_connection, clients, pinged, phase, last,
          script, threads

vars ==
  <<only_text_feedback, freecad_connection, clients, pinged, phase, last, script, threads>>

(* Bound on the number of FreeCADConnection objects constructed in a run. *)
MaxClients == 2

(* _freecad_connection = None *)
NULL == 0

(* Python None as a screenshot value. *)
None == "None"

(* The guard was not called in the invocation. *)
NotCalled == "NotCalled"

-----------------------------------------------------------------------------
(* Remote outcomes *)

(* self.server.ping(): truthy, falsy, or a transport error. *)
PingResults == {"true", "false", "raise"}

(* A Remote Result of a primary request, or a transport error. *)
RemoteResults ==
  { [kind |-> "dict", success |-> TRUE, payload |-> "Foo", error |-> "", exc |-> ""],
    [kind |-> "dict", success |-> FALSE, payload |-> "", error |-> "DuplicateName", exc |-> ""],
    [kind |-> "raise", success |-> FALSE, payload |-> "", error |-> "", exc |-> "ConnectionRefusedError"] }

MsgSupported == "Current view supports screenshots: View3DInventor"
MsgUnsupported == "Current view does not support screenshots"
MsgNoView == "No active view"

(* What the capability script's execute_code request yields: a transport  *)
(* error, a value that is not a dict, or a dict whose "success" and        *)
(* "message" keys may be missing (hasSuccess / an empty message).          *)
CapResults ==
  { [kind |-> "raise", hasSuccess |-> FALSE, success |-> FALSE, message |-> <<>>],
    [kind |-> "nondict", hasSuccess |-> FALSE, success |-> FALSE, message |-> <<>>],
    [kind |-> "dict", hasSuccess |-> FALSE, success |-> FALSE, message |-> <<>>],
    [kind |-> "dict", hasSuccess |-> TRUE, success |-> FALSE, message |-> <<>>],
    [kind |-> "dict", hasSuccess |-> TRUE, success |-> TRUE, message |-> <<MsgSupported>>],
    [kind |-> "dict", hasSuccess |-> TRUE, success |-> TRUE, message |-> <<MsgUnsupported>>],
    [kind |-> "dict", hasSuccess |-> TRUE, success |-> TRUE, message |-> <<MsgNoView>>] }

(* self.server.get_active_screenshot(view_name): image data, an empty      *)
(* string, None, or a transport error.                                     *)
ShotResults == {"iVBORw0KGgo", "", None, "raise"}

(* The remote GUI state the capability script inspects: whether there is   *)
(* an active document with an active view, the view's type name, and       *)
(* whether the view has a saveImage attribute.                             *)
NoActiveView == [active |-> FALSE, type |-> "", saveImage |-> FALSE]

Views ==
  { NoActiveView,
    [active |-> TRUE, type |-> "SpreadsheetGui::SheetView", saveImage |-> TRUE],
    [active |-> TRUE, type |-> "DrawingGui::DrawingView", saveImage |-> TRUE],
    [active |-> TRUE, type |-> "TechDrawGui::MDIViewPage", saveImage |-> TRUE],
    [active |-> TRUE, type |-> "View3DInventor", saveImage |-> TRUE],
    [active |-> TRUE, type |-> "View3DInventor", saveImage |-> FALSE] }

(* The views the handler invocations are explored with. *)
HandlerViews ==
  { NoActiveView,
    [active |-> TRUE, type |-> "TechDrawGui::MDIViewPage", saveImage |-> TRUE],
    [active |-> TRUE, type |-> "View3DInventor", saveImage |-> TRUE] }

(* unsupported_views of the capability script. *)
unsupported_views ==
  {"SpreadsheetGui::SheetView", "DrawingGui::DrawingView", "TechDrawGui::MDIViewPage"}

(* The capability script of get_active_screenshot: the line it prints.     *)
(* Its bare False / True expression statements have no effect.             *)
CapabilityScript(view) ==
  IF view.active
    THEN IF view.type \in unsupported_views \/ ~view.saveImage
      THEN MsgUnsupported
      ELSE MsgSupported
    ELSE MsgNoView

(* The remote's execute_code for a script that prints output: a transport  *)
(* error, a malformed value, a failure result, or a success result whose   *)
(* message carries the printed output.                                     *)
RemoteExecute(output) ==
  { c \in CapResults : (c.kind = "dict" /\ c.hasSuccess /\ c.success) => c.message = <<output>> }

(* The remote's get_active_screenshot: without an active view there is no  *)
(* image to return.                                                        *)
RemoteScreenshot(view) ==
  IF view.active THEN ShotResults ELSE {None, "raise"}

(* view_name of get_active_screenshot and get_view. *)
ViewNames ==
  {"Isometric", "Front", "Top", "Right", "Back", "Left", "Bottom", "Dimetric", "Trimetric"}

(* get_objects / get_object / get_parts_list payloads. *)
ListResults ==
  { [kind |-> "list", items |-> <<>>, exc |-> ""],
    [kind |-> "list", items |-> <<"Box">>, exc |-> ""],
    [kind |-> "raise", items |-> <<>>, exc |-> "ConnectionRefusedError"] }

(* Names passed as handler arguments. *)
Names == {"Sketch001"}

-----------------------------------------------------------------------------
(* Content items *)

TextContent(t) == [type |-> "text", text |-> t]

ImageContent(d, m) == [type |-> "image", data |-> d, mimeType |-> m]

PreviewNote ==
  <<"Note: Visual preview is unavailable in the current view type (such as TechDraw or Spreadsheet). Switch to a 3D view to see visual feedback.">>

CannotGetScreenshot ==
  <<"Cannot get screenshot in the current view type (such as TechDraw or Spreadsheet)">>

NoPartsFound ==
  <<"No parts found in the parts library. You must add parts_library addon.">>

ConnectError ==
  "Failed to connect to FreeCAD. Make sure the FreeCAD addon is running."

(* json.dumps of a list: brackets around the elements. *)
JsonDumps(items) == <<"[">> \o items \o <<"]">>

-----------------------------------------------------------------------------
(* Connection lifecycle manager *)

(* get_freecad_connection(): c is _freecad_connection on entry, n the      *)
(* number of clients constructed so far, p the outcome of ping().  When    *)
(* ping() raises, the assignment of line 128 has happened and line 131 is  *)
(* not reached.                                                            *)
get_freecad_connection_reping(c, n, p) ==
  IF p = "raise"
    THEN [conn |-> IF c = NULL THEN n + 1 ELSE c, clients |-> IF c = NULL THEN n + 1 ELSE n,
          raised |-> TRUE, exc |-> "ConnectionRefusedError", ret |-> NULL,
          requests |-> <<"ping">>, ping |-> p]
    ELSE IF p = "false"
      THEN [conn |-> NULL, clients |-> IF c = NULL THEN n + 1 ELSE n, raised |-> TRUE,
            exc |-> ConnectError, ret |-> NULL, requests |-> <<"ping">>, ping |-> p]
      ELSE [conn |-> IF c = NULL THEN n + 1 ELSE c, clients |-> IF c = NULL THEN n + 1 ELSE n,
            raised |-> FALSE, exc |-> "", ret |-> IF c = NULL THEN n + 1 ELSE c,
            requests |-> <<"ping">>, ping |-> p]

(* get_freecad_connection() dropping the global when it is reused. *)
get_freecad_connection_release(c, n, p) ==
  IF c = NULL
    THEN get_freecad_connection_reping(c, n, p)
    ELSE [conn |-> NULL, clients |-> n, raised |-> FALSE, exc |-> "", ret |-> c,
          requests |-> <<>>, ping |-> "none"]

get_freecad_connection(c, n, p) ==
  IF c = NULL
    THEN IF p = "raise"
      THEN [conn |-> n + 1, clients |-> n + 1, raised |-> TRUE,
            exc |-> "ConnectionRefusedError", ret |-> NULL,
            requests |-> <<"ping">>, ping |-> p]
      ELSE IF p = "false"
        THEN [conn |-> NULL, clients |-> n + 1, raised |-> TRUE,
              exc |-> ConnectError, ret |-> NULL,
              requests |-> <<"ping">>, ping |-> p]
        ELSE [conn |-> n + 1, clients |-> n + 1, raised |-> FALSE,
              exc |-> "", ret |-> n + 1,
              requests |-> <<"ping">>, ping |-> p]
    ELSE [conn |-> c, clients |-> n, raised |-> FALSE, exc |-> "", ret |-> c,
          requests |-> <<>>, ping |-> "none"]

-----------------------------------------------------------------------------
(* Screenshot availability guard *)

(* "Current view does not support screenshots" in result.get("message", "") *)
MentionsUnsupported(message) ==
  \E i \in 1..Len(message) : message[i] = MsgUnsupported

(* The guard without the message test of line 70. *)
get_active_screenshot_try_nomsg(cap, shot) ==
  IF cap.kind = "raise" \/ cap.kind = "nondict"
    THEN [ret |-> None, requests |-> <<"capability_check">>, raised |-> TRUE]
    ELSE IF ~(cap.hasSuccess /\ cap.success)
      THEN [ret |-> None, requests |-> <<"capability_check">>, raised |-> FALSE]
      ELSE IF shot = "raise"
        THEN [ret |-> None, requests |-> <<"capability_check", "get_active_screenshot">>,
              raised |-> TRUE]
        ELSE [ret |-> shot, requests |-> <<"capability_check", "get_active_screenshot">>,
              raised |-> FALSE]

(* The try block of FreeCADConnection.get_active_screenshot: the value it  *)
(* returns or the exception it meets (a transport error of either request, *)
(* or AttributeError of result.get on a value that is not a dict), and the *)
(* remote requests issued.                                                 *)
get_active_screenshot_try(cap, shot) ==
  IF cap.kind = "raise" \/ cap.kind = "nondict"
    THEN [ret |-> None, requests |-> <<"capability_check">>, raised |-> TRUE]
    ELSE IF ~(cap.hasSuccess /\ cap.success) \/ MentionsUnsupported(cap.message)
      THEN [ret |-> None, requests |-> <<"capability_check">>, raised |-> FALSE]
      ELSE IF shot = "raise"
        THEN [ret |-> None, requests |-> <<"capability_check", "get_active_screenshot">>,
              raised |-> TRUE]
        ELSE [ret |-> shot, requests |-> <<"capability_check", "get_active_screenshot">>,
              raised |-> FALSE]

(* The guard without its except clause. *)
get_active_screenshot_noexcept(cap, shot) == get_active_screenshot_try(cap, shot)

(* FreeCADConnection.get_active_screenshot: the value returned and the     *)
(* remote requests issued.  Every exception is caught and gives None.      *)
get_active_screenshot(cap, shot) ==
  LET t == get_active_screenshot_try(cap, shot) IN
  IF t.raised
    THEN [ret |-> None, requests |-> t.requests, raised |-> FALSE]
    ELSE t

-----------------------------------------------------------------------------
(* Envelope helper *)

add_screenshot_if_available_both(response, screenshot) ==
  IF screenshot # None /\ ~only_text_feedback
    THEN response \o <<ImageContent(screenshot, "image/png"), TextContent(PreviewNote)>>
    ELSE IF ~only_text_feedback
      THEN Append(response, TextContent(PreviewNote))
      ELSE response

add_screenshot_if_available_silent(response, screenshot) ==
  IF screenshot # None /\ ~only_text_feedback
    THEN Append(response, ImageContent(screenshot, "image/png"))
    ELSE response

add_screenshot_if_available_alwaysnote(response, screenshot) ==
  IF screenshot # None /\ ~only_text_feedback
    THEN Append(response, ImageContent(screenshot, "image/png"))
    ELSE Append(response, TextContent(PreviewNote))

add_screenshot_if_available(response, screenshot) ==
  IF screenshot # None /\ ~only_text_feedback
    THEN Append(response, ImageContent(screenshot, "image/png"))
    ELSE IF ~only_text_feedback
      THEN Append(response, TextContent(PreviewNote))
      ELSE response

-----------------------------------------------------------------------------
(* Operation handlers *)

(* Handlers of the shape: primary request, then the guard, then the        *)
(* success/failure text and add_screenshot_if_available.                   *)
SketchHandlers ==
  {"create_sketch", "sketch_add_point", "sketch_add_line", "sketch_add_circle",
   "sketch_add_arc", "sketch_add_rectangle", "sketch_add_polyline",
   "sketch_add_ellipse", "sketch_add_regular_polygon", "sketch_add_constraint",
   "sketch_close_edit"}

ResultHandlers ==
  {"create_object", "edit_object", "delete_object", "execute_code",
   "insert_part_from_library"} \cup SketchHandlers

QueryHandlers == {"get_objects", "get_object"}

(* Handlers that call get_active_screenshot. *)
ScreenshotHandlers == ResultHandlers \cup QueryHandlers \cup {"get_view"}

Handlers == ScreenshotHandlers \cup {"create_document", "get_parts_list"}

(* constraint_type of sketch_add_constraint. *)
ConstraintTypes ==
  {"Horizontal", "Vertical", "Parallel", "Perpendicular", "Tangent", "Equal",
   "Symmetric", "Distance", "Radius", "Angle", "Coincident", "PointOnObject"}

(* geometry_indices of sketch_add_constraint. *)
GeometryIndexLists == {<<>>, <<0>>, <<0, 1>>}

(* point_indices of sketch_add_constraint: None and the empty list, which  *)
(* line 1463 both turns into None, are the empty tuple.                    *)
PointIndexLists == {<<>>, <<2, 1>>}

(* value of sketch_add_constraint: None is the empty tuple. *)
Values == {<<>>, <<25>>}

(* Bound on len(points) of sketch_add_polyline. *)
MaxPoints == 3

(* Bound on sides of sketch_add_regular_polygon. *)
MaxSides == 4

(* The arguments of a sketch handler. *)
SketchArgs(op) ==
  CASE op = "sketch_add_polyline" ->
         [sketch_name : Names, points : 0..MaxPoints, closed : BOOLEAN]
    [] op = "sketch_add_regular_polygon" ->
         [sketch_name : Names, sides : 2..MaxSides]
    [] op = "sketch_add_constraint" ->
         [sketch_name : Names, constraint_type : ConstraintTypes,
          geometry_indices : GeometryIndexLists, value : Values,
          point_indices : PointIndexLists]
    [] OTHER -> [sketch_name : Names]

(* The arguments the handlers are explored with when the script's effect   *)
(* is left to the remote: one argument value per handler.                  *)
HandlerArgs(op) ==
  CASE op = "sketch_add_polyline" ->
         {a \in SketchArgs(op) : a.points = 2 /\ ~a.closed}
    [] op = "sketch_add_regular_polygon" ->
         {a \in SketchArgs(op) : a.sides = 3}
    [] op = "sketch_add_constraint" ->
         {a \in SketchArgs(op) : /\ a.constraint_type = "Horizontal"
                                 /\ a.geometry_indices = <<0>>
                                 /\ a.value = <<>>
                                 /\ a.point_indices = <<>>}
    [] op \in SketchHandlers -> SketchArgs(op)
    [] OTHER -> Names

(* The FreeCADConnection method a handler calls for its primary request;   *)
(* the sketch handlers send their script through execute_code.             *)
PrimaryRequest(op) ==
  IF op \in SketchHandlers THEN "execute_code" ELSE op

(* The text before the error in the handler's failure item. *)
FailPrefix(op) ==
  CASE op = "create_document" -> "Failed to create document: "
    [] op = "create_object" -> "Failed to create object: "
    [] op = "edit_object" -> "Failed to edit object: "
    [] op = "delete_object" -> "Failed to delete object: "
    [] op = "execute_code" -> "Failed to execute code: "
    [] op = "insert_part_from_library" -> "Failed to insert part from library: "
    [] op = "get_objects" -> "Failed to get objects: "
    [] op = "get_object" -> "Failed to get object: "
    [] op = "create_sketch" -> "Failed to create sketch: "
    [] op = "sketch_add_point" -> "Failed to add point: "
    [] op = "sketch_add_line" -> "Failed to add line: "
    [] op = "sketch_add_circle" -> "Failed to add circle: "
    [] op = "sketch_add_arc" -> "Failed to add arc: "
    [] op = "sketch_add_rectangle" -> "Failed to add rectangle: "
    [] op = "sketch_add_polyline" -> "Failed to add polyline: "
    [] op = "sketch_add_ellipse" -> "Failed to add ellipse: "
    [] op = "sketch_add_regular_polygon" -> "Failed to add polygon: "
    [] op = "sketch_add_constraint" -> "Failed to add constraint: "
    [] op = "sketch_close_edit" -> "Failed to close sketch editing: "

(* str(b) of a Python bool. *)
PyBool(b) == IF b THEN "True" ELSE "False"

(* The handler's success text: built from the Remote Result for the        *)
(* object handlers, from the handler's own arguments for the sketch ones.  *)
SuccessText(op, arg, res) ==
  CASE op = "create_document" -> <<"Document '", res.payload, "' created successfully">>
    [] op = "create_object" -> <<"Object '", res.payload, "' created successfully">>
    [] op = "edit_object" -> <<"Object '", res.payload, "' edited successfully">>
    [] op = "delete_object" -> <<"Object '", res.payload, "' deleted successfully">>
    [] op = "execute_code" -> <<"Code executed successfully: ", res.payload>>
    [] op = "insert_part_from_library" -> <<"Part inserted from library: ", res.payload>>
    [] op = "create_sketch" -> <<"Sketch '", arg.sketch_name, "' created successfully on ", "XY", " plane">>
    [] op = "sketch_add_point" -> <<"Point added to sketch '", arg.sketch_name, "' at (x, y)">>
    [] op = "sketch_add_line" -> <<"Line added to sketch '", arg.sketch_name, "' from (x1, y1) to (x2, y2)">>
    [] op = "sketch_add_circle" -> <<"Circle added to sketch '", arg.sketch_name, "' with center and radius">>
    [] op = "sketch_add_arc" -> <<"Arc added to sketch '", arg.sketch_name, "' with center, radius and angles">>
    [] op = "sketch_add_rectangle" -> <<"Rectangle added to sketch '", arg.sketch_name, "' from (x1, y1) to (x2, y2)">>
    [] op = "sketch_add_polyline" ->
         <<"Polyline added to sketch '", arg.sketch_name, "' with ", ToString(arg.points),
           " points, closed: ", PyBool(arg.closed)>>
    [] op = "sketch_add_ellipse" -> <<"Ellipse added to sketch '", arg.sketch_name, "' with center and radii">>
    [] op = "sketch_add_regular_polygon" ->
         <<"Regular ", ToString(arg.sides), "-sided polygon added to sketch '",
           arg.sketch_name, "' with center and radius">>
    [] op = "sketch_add_constraint" -> <<arg.constraint_type, " constraint added to sketch '", arg.sketch_name, "'">>
    [] op = "sketch_close_edit" -> <<"Closed editing mode for sketch '", arg.sketch_name, "'">>

PrimaryText_inverted(op, arg, res) ==
  IF ~res.success
    THEN TextContent(SuccessText(op, arg, res))
    ELSE TextContent(<<FailPrefix(op), res.error>>)

(* The first item: success text when res["success"], else the failure text *)
(* with res["error"].                                                      *)
PrimaryText(op, arg, res) ==
  IF res.success
    THEN TextContent(SuccessText(op, arg, res))
    ELSE TextContent(<<FailPrefix(op), res.error>>)

(* except Exception as e: return [TextContent(text=f"Failed ...: {str(e)}")] *)
ExceptItem(op, exc) == TextContent(<<FailPrefix(op), exc>>)

(* create_document given the shape of create_object. *)
create_document_body_shot(res) ==
  IF res.kind = "raise"
    THEN [outcome |-> "returned", envelope |-> <<ExceptItem("create_document", res.exc)>>,
          requests |-> <<"create_document">>, shot |-> NotCalled,
          primaryRaised |-> TRUE, guardRaised |-> FALSE, exc |-> res.exc]
    ELSE [outcome |-> "returned",
          envelope |-> add_screenshot_if_available(
                         <<PrimaryText("create_document", "", res)>>, "iVBORw0KGgo"),
          requests |-> <<"create_document", "capability_check", "get_active_screenshot">>,
          shot |-> "iVBORw0KGgo",
          primaryRaised |-> FALSE, guardRaised |-> FALSE, exc |-> ""]

(* Body of create_document after the session is obtained. *)
create_document_body(res) ==
  IF res.kind = "raise"
    THEN [outcome |-> "returned", envelope |-> <<ExceptItem("create_document", res.exc)>>,
          requests |-> <<"create_document">>, shot |-> NotCalled,
          primaryRaised |-> TRUE, guardRaised |-> FALSE, exc |-> res.exc]
    ELSE [outcome |-> "returned", envelope |-> <<PrimaryText("create_document", "", res)>>,
          requests |-> <<"create_document">>, shot |-> NotCalled,
          primaryRaised |-> FALSE, guardRaised |-> FALSE, exc |-> ""]

(* What str(e) gives for an exception that left get_active_screenshot. *)
GuardError == "get_active_screenshot error"

(* The result handlers with the failure branch returning its text alone. *)
result_handler_body_failonly(op, arg, res, cap, shot) ==
  IF res.kind = "raise"
    THEN [outcome |-> "returned", envelope |-> <<ExceptItem(op, res.exc)>>,
          requests |-> <<PrimaryRequest(op)>>, shot |-> NotCalled,
          primaryRaised |-> TRUE, guardRaised |-> FALSE, exc |-> res.exc]
    ELSE LET s == get_active_screenshot(cap, shot) IN
         [outcome |-> "returned",
          envelope |-> IF res.success
                         THEN add_screenshot_if_available(<<PrimaryText(op, arg, res)>>, s.ret)
                         ELSE <<PrimaryText(op, arg, res)>>,
          requests |-> <<PrimaryRequest(op)>> \o s.requests, shot |-> s.ret,
          primaryRaised |-> FALSE, guardRaised |-> FALSE, exc |-> ""]

(* The result handlers taking the screenshot in every path, also after a   *)
(* primary request that raised.                                            *)
result_handler_body_always(op, arg, res, cap, shot) ==
  LET s == get_active_screenshot(cap, shot) IN
  IF res.kind = "raise"
    THEN [outcome |-> "returned", envelope |-> <<ExceptItem(op, res.exc)>>,
          requests |-> <<PrimaryRequest(op)>> \o s.requests, shot |-> s.ret,
          primaryRaised |-> TRUE, guardRaised |-> FALSE, exc |-> res.exc]
    ELSE [outcome |-> "returned",
          envelope |-> add_screenshot_if_available(<<PrimaryText(op, arg, res)>>, s.ret),
          requests |-> <<PrimaryRequest(op)>> \o s.requests, shot |-> s.ret,
          primaryRaised |-> FALSE, guardRaised |-> FALSE, exc |-> ""]

(* Body of create_object, edit_object, delete_object, execute_code,        *)
(* insert_part_from_library and the sketch handlers: when the primary      *)
(* request raises, the guard is not reached.  An exception leaving the     *)
(* guard would reach the handler's except branch like any other.           *)
result_handler_body(op, arg, res, cap, shot) ==
  IF res.kind = "raise"
    THEN [outcome |-> "returned", envelope |-> <<ExceptItem(op, res.exc)>>,
          requests |-> <<PrimaryRequest(op)>>, shot |-> NotCalled,
          primaryRaised |-> TRUE, guardRaised |-> FALSE, exc |-> res.exc]
    ELSE LET s == get_active_screenshot(cap, shot) IN
         IF s.raised
           THEN [outcome |-> "returned", envelope |-> <<ExceptItem(op, GuardError)>>,
                 requests |-> <<PrimaryRequest(op)>> \o s.requests, shot |-> s.ret,
                 primaryRaised |-> FALSE, guardRaised |-> TRUE, exc |-> GuardError]
           ELSE [outcome |-> "returned",
                 envelope |-> add_screenshot_if_available(<<PrimaryText(op, arg, res)>>, s.ret),
                 requests |-> <<PrimaryRequest(op)>> \o s.requests, shot |-> s.ret,
                 primaryRaised |-> FALSE, guardRaised |-> FALSE, exc |-> ""]

(* get_objects and get_object leaving the guard out in text-only mode. *)
query_handler_body_textskip(op, lst, cap, shot) ==
  LET s == IF only_text_feedback
             THEN [ret |-> None, requests |-> <<>>, raised |-> FALSE]
             ELSE get_active_screenshot(cap, shot) IN
  IF lst.kind = "raise"
    THEN [outcome |-> "returned", envelope |-> <<ExceptItem(op, lst.exc)>>,
          requests |-> s.requests \o <<op>>, shot |-> s.ret,
          primaryRaised |-> TRUE, guardRaised |-> FALSE, exc |-> lst.exc]
    ELSE [outcome |-> "returned",
          envelope |-> add_screenshot_if_available(<<TextContent(JsonDumps(lst.items))>>, s.ret),
          requests |-> s.requests \o <<op>>, shot |-> s.ret,
          primaryRaised |-> FALSE, guardRaised |-> FALSE, exc |-> ""]

(* Body of get_objects and get_object: the guard runs first, then the      *)
(* query inside the list display.                                          *)
query_handler_body(op, lst, cap, shot) ==
  LET s == get_active_screenshot(cap, shot) IN
  IF s.raised
    THEN [outcome |-> "returned", envelope |-> <<ExceptItem(op, GuardError)>>,
          requests |-> s.requests, shot |-> s.ret,
          primaryRaised |-> FALSE, guardRaised |-> TRUE, exc |-> GuardError]
    ELSE IF lst.kind = "raise"
      THEN [outcome |-> "returned", envelope |-> <<ExceptItem(op, lst.exc)>>,
            requests |-> s.requests \o <<op>>, shot |-> s.ret,
            primaryRaised |-> TRUE, guardRaised |-> FALSE, exc |-> lst.exc]
      ELSE [outcome |-> "returned",
            envelope |-> add_screenshot_if_available(<<TextContent(JsonDumps(lst.items))>>, s.ret),
            requests |-> s.requests \o <<op>>, shot |-> s.ret,
            primaryRaised |-> FALSE, guardRaised |-> FALSE, exc |-> ""]

(* Body of get_view: no try block and no use of _only_text_feedback. *)
get_view_body(cap, shot) ==
  LET s == get_active_screenshot(cap, shot) IN
  IF s.raised
    THEN [outcome |-> "raised", envelope |-> <<>>, requests |-> s.requests,
          shot |-> s.ret, primaryRaised |-> FALSE, guardRaised |-> TRUE,
          exc |-> GuardError]
    ELSE [outcome |-> "returned",
          envelope |-> IF s.ret # None
                         THEN <<ImageContent(s.ret, "image/png")>>
                         ELSE <<TextContent(CannotGetScreenshot)>>,
          requests |-> s.requests, shot |-> s.ret, primaryRaised |-> FALSE,
          guardRaised |-> FALSE, exc |-> ""]

(* get_parts_list with the truth test of line 556 left out. *)
get_parts_list_body_noempty(lst) ==
  IF lst.kind = "raise"
    THEN [outcome |-> "raised", envelope |-> <<>>, requests |-> <<"get_parts_list">>,
          shot |-> NotCalled, primaryRaised |-> TRUE, guardRaised |-> FALSE,
          exc |-> lst.exc]
    ELSE [outcome |-> "returned",
          envelope |-> <<TextContent(JsonDumps(lst.items))>>,
          requests |-> <<"get_parts_list">>, shot |-> NotCalled,
          primaryRaised |-> FALSE, guardRaised |-> FALSE, exc |-> ""]

(* Body of get_parts_list: no try block; an empty list is falsy. *)
get_parts_list_body(lst) ==
  IF lst.kind = "raise"
    THEN [outcome |-> "raised", envelope |-> <<>>, requests |-> <<"get_parts_list">>,
          shot |-> NotCalled, primaryRaised |-> TRUE, guardRaised |-> FALSE,
          exc |-> lst.exc]
    ELSE [outcome |-> "returned",
          envelope |-> IF Len(lst.items) > 0
                         THEN <<TextContent(JsonDumps(lst.items))>>
                         ELSE <<TextContent(NoPartsFound)>>,
          requests |-> <<"get_parts_list">>, shot |-> NotCalled,
          primaryRaised |-> FALSE, guardRaised |-> FALSE, exc |-> ""]

-----------------------------------------------------------------------------
(* State machine *)

(* Values of the fields of a call record for something the call did not   *)
(* meet: no primary result, no list, no view inspected, no capability      *)
(* result.                                                                 *)
NoResult == [kind |-> "none", success |-> FALSE, payload |-> "", error |-> "", exc |-> ""]

NoList == [kind |-> "none", items |-> <<>>, exc |-> ""]

Unobserved == [active |-> FALSE, type |-> "unobserved", saveImage |-> FALSE]

NoCap == [kind |-> "none", hasSuccess |-> FALSE, success |-> FALSE, message |-> <<>>]

NoGuard == [view |-> Unobserved, cap |-> NoCap, shot |-> NotCalled]

(* The record kept of the most recent call: what it returned or raised,    *)
(* the remote requests it issued in order, the handle held on entry        *)
(* (held), the handle get_freecad_connection returned (got, NULL when it   *)
(* raised), the ping outcome ("none" when no ping was issued), the value   *)
(* the guard returned (shot), and what the remote answered: the primary    *)
(* result (res, lst), the view the capability script saw, the capability   *)
(* result (cap) and the screenshot request's outcome (shotRes).            *)
NoCall ==
  [op |-> "none", outcome |-> "returned", envelope |-> <<>>, requests |-> <<>>,
   shot |-> NotCalled, held |-> NULL, got |-> NULL, ping |-> "none",
   primaryRaised |-> FALSE, guardRaised |-> FALSE, exc |-> "",
   arg |-> "", res |-> NoResult, lst |-> NoList,
   view |-> Unobserved, cap |-> NoCap, shotRes |-> NotCalled]

(* The inputs of a handler invocation as kept in the call record. *)
Inputs(arg, res, lst, o) ==
  [arg |-> arg, res |-> res, lst |-> lst, view |-> o.view, cap |-> o.cap, shot |-> o.shot]

(* The effect of the most recent sketch script on the remote document; no  *)
(* script has run yet.                                                     *)
NoScript ==
  [target |-> "none", base |-> 0, done |-> FALSE, geometry |-> <<>>,
   constraints |-> <<>>, printed |-> <<>>, raised |-> FALSE, error |-> ""]

(* Bound on the number of callers inside get_freecad_connection() at once. *)
MaxThreads == 2

Threads == 1..MaxThreads

(* A caller that is not inside get_freecad_connection(). *)
IdleThread == [pc |-> "idle", ret |-> NULL, outcome |-> "none"]

Init ==
  /\ only_text_feedback = FALSE
  /\ freecad_connection = NULL
  /\ clients = 0
  /\ pinged = {}
  /\ phase = "init"
  /\ last = NoCall
  /\ script = NoScript
  /\ threads = [t \in Threads |-> IdleThread]

(* main(): the --only-text-feedback flag is stored before mcp.run(). *)
main ==
  /\ phase = "init"
  /\ only_text_feedback' \in BOOLEAN
  /\ phase' = "boot"
  /\ UNCHANGED <<freecad_connection, clients, pinged, last, script, threads>>

(* The effect of one get_freecad_connection() call on the globals. *)
Connect(g) ==
  /\ freecad_connection' = g.conn
  /\ clients' = g.clients
  /\ pinged' = IF g.ping = "true" THEN pinged \cup {g.conn} ELSE pinged

(* server_lifespan with the inner try/except of lines 95-102 left out: a   *)
(* failed connection ends the lifespan.                                    *)
server_lifespan_startup_fatal ==
  /\ phase = "boot"
  /\ \E p \in PingResults :
       LET g == get_freecad_connection(freecad_connection, clients, p) IN
       /\ Connect(g)
       /\ last' = [NoCall EXCEPT !.op = "startup",
                                 !.outcome = IF g.raised THEN "raised" ELSE "returned",
                                 !.requests = g.requests,
                                 !.held = freecad_connection, !.got = g.ret,
                                 !.ping = g.ping, !.exc = g.exc]
       /\ phase' = IF g.raised THEN "stopped" ELSE "serving"
  /\ UNCHANGED <<only_text_feedback, script, threads>>

(* server_lifespan up to the yield: one get_freecad_connection() whose     *)
(* exception is logged and dropped.                                        *)
server_lifespan_startup ==
  /\ phase = "boot"
  /\ \E p \in PingResults :
       LET g == get_freecad_connection(freecad_connection, clients, p) IN
       /\ Connect(g)
       /\ last' = [NoCall EXCEPT !.op = "startup", !.requests = g.requests,
                                 !.held = freecad_connection, !.got = g.ret,
                                 !.ping = g.ping, !.exc = g.exc]
  /\ phase' = "serving"
  /\ UNCHANGED <<only_text_feedback, script, threads>>

(* The finally branch of server_lifespan: FreeCADConnection defines no     *)
(* disconnect(), so with a handle held line 109 raises AttributeError and  *)
(* line 110 is not reached.                                                *)
server_lifespan_shutdown ==
  /\ phase = "serving"
  /\ phase' = "stopped"
  /\ last' = [NoCall EXCEPT !.op = "shutdown",
                !.outcome = IF freecad_connection # NULL THEN "raised" ELSE "returned",
                !.held = freecad_connection,
                !.exc = IF freecad_connection # NULL THEN "AttributeError" ELSE ""]
  /\ UNCHANGED <<only_text_feedback, freecad_connection, clients, pinged, script, threads>>

(* One handler invocation: get_freecad_connection() outside the try block, *)
(* then the handler's body.  An exception of get_freecad_connection()      *)
(* leaves the handler before any of its requests.                          *)
Invoke(op, p, body, inp) ==
  /\ phase = "serving"
  /\ freecad_connection = NULL => clients < MaxClients
  /\ LET g == get_freecad_connection(freecad_connection, clients, p) IN
     /\ Connect(g)
     /\ last' = IF g.raised
                  THEN [NoCall EXCEPT !.op = op, !.outcome = "raised",
                                      !.requests = g.requests,
                                      !.held = freecad_connection,
                                      !.ping = g.ping, !.exc = g.exc]
                  ELSE [op |-> op, outcome |-> body.outcome, envelope |-> body.envelope,
                        requests |-> g.requests \o body.requests, shot |-> body.shot,
                        held |-> freecad_connection, got |-> g.ret, ping |-> g.ping,
                        primaryRaised |-> body.primaryRaised,
                        guardRaised |-> body.guardRaised, exc |-> body.exc,
                        arg |-> inp.arg, res |-> inp.res, lst |-> inp.lst,
                        view |-> inp.view, cap |-> inp.cap, shotRes |-> inp.shot]
  /\ UNCHANGED <<only_text_feedback, phase, threads>>

(* The ping outcomes a call can meet: ping() is only issued when no handle *)
(* is held on entry.                                                       *)
PingOutcomes == IF freecad_connection = NULL THEN PingResults ELSE {"none"}

(* What one guard call can meet over the views V: the view, the capability *)
(* script's result for that view, and the screenshot request's outcome,    *)
(* which exists only when the guard issues the request.                    *)
GuardOutcomesOver(V) ==
  { o \in [view : V, cap : CapResults, shot : ShotResults \cup {NotCalled}] :
      /\ o.cap \in RemoteExecute(CapabilityScript(o.view))
      /\ IF Len(get_active_screenshot(o.cap, None).requests) = 2
           THEN o.shot \in RemoteScreenshot(o.view)
           ELSE o.shot = NotCalled }

(* The guard outcomes the handler invocations are explored with: the      *)
(* capability request raises or succeeds.  Its malformed and failure       *)
(* results, which the guard maps to None like a raise, are explored on the *)
(* guard alone.                                                            *)
GuardOutcomes ==
  { o \in GuardOutcomesOver(HandlerViews) :
      o.cap.kind = "raise" \/ (o.cap.hasSuccess /\ o.cap.success) }

(* The guard's outcomes in a handler that reaches the guard only when its  *)
(* primary request did not raise.                                          *)
GuardOutcomesAfter(res) ==
  IF res.kind = "raise" THEN {NoGuard} ELSE GuardOutcomes

ResultHandler(op) ==
  /\ \E p \in PingOutcomes, arg \in HandlerArgs(op), res \in RemoteResults :
       \E o \in GuardOutcomesAfter(res) :
         Invoke(op, p, result_handler_body(op, arg, res, o.cap, o.shot),
                Inputs(arg, res, NoList, o))
  /\ UNCHANGED script

QueryHandler(op) ==
  /\ \E p \in PingOutcomes, lst \in ListResults, o \in GuardOutcomes :
       Invoke(op, p, query_handler_body(op, lst, o.cap, o.shot),
              Inputs("", NoResult, lst, o))
  /\ UNCHANGED script

create_document ==
  /\ \E p \in PingOutcomes, res \in RemoteResults :
       Invoke("create_document", p, create_document_body(res),
              Inputs("", res, NoList, NoGuard))
  /\ UNCHANGED script

create_object == ResultHandler("create_object")

edit_object == ResultHandler("edit_object")

delete_object == ResultHandler("delete_object")

execute_code == ResultHandler("execute_code")

get_view ==
  /\ \E p \in PingOutcomes, o \in GuardOutcomes :
       Invoke("get_view", p, get_view_body(o.cap, o.shot),
              Inputs("", NoResult, NoList, o))
  /\ UNCHANGED script

insert_part_from_library == ResultHandler("insert_part_from_library")

get_objects == QueryHandler("get_objects")

get_object == QueryHandler("get_object")

get_parts_list ==
  /\ \E p \in PingOutcomes, lst \in ListResults :
       Invoke("get_parts_list", p, get_parts_list_body(lst),
              Inputs("", NoResult, lst, NoGuard))
  /\ UNCHANGED script

create_sketch == ResultHandler("create_sketch")

sketch_add_point == ResultHandler("sketch_add_point")

sketch_add_line == ResultHandler("sketch_add_line")

sketch_add_circle == ResultHandler("sketch_add_circle")

sketch_add_arc == ResultHandler("sketch_add_arc")

sketch_add_rectangle == ResultHandler("sketch_add_rectangle")

sketch_add_polyline == ResultHandler("sketch_add_polyline")

sketch_add_ellipse == ResultHandler("sketch_add_ellipse")

sketch_add_regular_polygon == ResultHandler("sketch_add_regular_polygon")

sketch_add_constraint == ResultHandler("sketch_add_constraint")

sketch_close_edit == ResultHandler("sketch_close_edit")

Next ==
  \/ main
  \/ server_lifespan_startup
  \/ server_lifespan_shutdown
  \/ create_document
  \/ create_object
  \/ edit_object
  \/ delete_object
  \/ execute_code
  \/ get_view
  \/ insert_part_from_library
  \/ get_objects
  \/ get_object
  \/ get_parts_list
  \/ create_sketch
  \/ sketch_add_point
  \/ sketch_add_line
  \/ sketch_add_circle
  \/ sketch_add_arc
  \/ sketch_add_rectangle
  \/ sketch_add_polyline
  \/ sketch_add_ellipse
  \/ sketch_add_regular_polygon
  \/ sketch_add_constraint
  \/ sketch_close_edit

Spec == Init /\ [][Next]_vars

-----------------------------------------------------------------------------
(* The guard on its own *)

(* A FreeCADConnection constructed outside the server, on which            *)
(* get_active_screenshot is called directly.                               *)
InitClient ==
  /\ only_text_feedback = FALSE
  /\ freecad_connection = NULL
  /\ clients = 0
  /\ pinged = {}
  /\ phase = "client"
  /\ last = NoCall
  /\ script = NoScript
  /\ threads = [t \in Threads |-> IdleThread]

(* One call of FreeCADConnection.get_active_screenshot(view_name). *)
get_active_screenshot_call ==
  /\ phase = "client"
  /\ \E name \in ViewNames, o \in GuardOutcomesOver(Views) :
       LET s == get_active_screenshot(o.cap, o.shot) IN
       last' = [NoCall EXCEPT !.op = "get_active_screenshot",
                              !.outcome = IF s.raised THEN "raised" ELSE "returned",
                              !.requests = s.requests, !.shot = s.ret,
                              !.guardRaised = s.raised, !.arg = name,
                              !.view = o.view, !.cap = o.cap, !.shotRes = o.shot]
  /\ UNCHANGED <<only_text_feedback, freecad_connection, clients, pinged, phase, script, threads>>

NextClient == get_active_screenshot_call

SpecClient == InitClient /\ [][NextClient]_vars

-----------------------------------------------------------------------------
(* The same invocation under the other feedback mode *)

(* The body the handler of the call c runs on the inputs c met. *)
BodyOf(c) ==
  CASE c.op \in ResultHandlers -> result_handler_body(c.op, c.arg, c.res, c.cap, c.shotRes)
    [] c.op \in QueryHandlers -> query_handler_body(c.op, c.lst, c.cap, c.shotRes)
    [] c.op = "get_view" -> get_view_body(c.cap, c.shotRes)
    [] c.op = "create_document" -> create_document_body(c.res)
    [] c.op = "get_parts_list" -> get_parts_list_body(c.lst)

(* The call c made again on the same arguments with the same remote        *)
(* behaviour: the same outcome of get_freecad_connection(), then the       *)
(* handler's body on the same remote answers.                              *)
Replay(c) ==
  IF c.got = NULL
    THEN c
    ELSE LET body == BodyOf(c) IN
         [c EXCEPT !.outcome = body.outcome, !.envelope = body.envelope,
                   !.requests = (IF c.ping = "none" THEN <<>> ELSE <<"ping">>)
                                  \o body.requests,
                   !.shot = body.shot, !.primaryRaised = body.primaryRaised,
                   !.guardRaised = body.guardRaised, !.exc = body.exc]

(* A second server process, started by main() with the other value of      *)
(* --only-text-feedback, receives the invocation the first one received    *)
(* and the remote answers as it did.                                       *)
main_other_mode ==
  /\ phase = "serving"
  /\ last.op \in Handlers
  /\ only_text_feedback' = ~only_text_feedback
  /\ \E c \in {last} : last' = Replay(c)'
  /\ phase' = "replayed"
  /\ UNCHANGED <<freecad_connection, clients, pinged, script, threads>>

NextPair == Next \/ main_other_mode

SpecPair == Init /\ [][NextPair]_vars

-----------------------------------------------------------------------------
(* Sketch scripts *)

(* What the script finds on the remote: no document of that name, a        *)
(* document without an object of that name, or the sketch.                 *)
Targets == {"NoDocument", "NoSketch", "Sketch"}

(* Bound on the number of geometry elements the sketch holds before the    *)
(* script runs; addGeometry returns the index of the element it adds.      *)
MaxBase == 1

(* The script ended with an uncaught exception after adding geometry. *)
ScriptRaised(target, base, error, geometry) ==
  [target |-> target, base |-> base, done |-> FALSE, geometry |-> geometry,
   constraints |-> <<>>, printed |-> <<>>, raised |-> TRUE, error |-> error]

(* The script printed a line and changed nothing. *)
ScriptPrinted(target, base, line) ==
  [target |-> target, base |-> base, done |-> FALSE, geometry |-> <<>>,
   constraints |-> <<>>, printed |-> <<line>>, raised |-> FALSE, error |-> ""]

(* The script ran the branch that performs the operation to its end. *)
ScriptDone(target, base, geometry, constraints, line) ==
  [target |-> target, base |-> base, done |-> TRUE, geometry |-> geometry,
   constraints |-> constraints, printed |-> <<line>>, raised |-> FALSE, error |-> ""]

(* The lines every sketch script starts with: FreeCAD.getDocument raises   *)
(* for an unknown document, doc.getObject gives None for an unknown name.  *)
ScriptOnSketch(target, base, branch) ==
  IF target = "NoDocument"
    THEN ScriptRaised(target, base, "Unknown document", <<>>)
    ELSE IF target = "NoSketch"
      THEN ScriptPrinted(target, base, "Sketch not found")
      ELSE branch

(* The script of sketch_add_point; it uses Part without importing it, so   *)
(* it depends on whether the remote interpreter provides the name.         *)
sketch_add_point_script(target, base, provided) ==
  ScriptOnSketch(target, base,
    IF provided
      THEN ScriptDone(target, base, <<<<"Point">>>>, <<>>, "Point added")
      ELSE ScriptRaised(target, base, "name 'Part' is not defined", <<>>))

sketch_add_line_script(target, base) ==
  ScriptOnSketch(target, base,
    ScriptDone(target, base, <<<<"LineSegment", 0, 1>>>>, <<>>, "Line added"))

sketch_add_circle_script(target, base) ==
  ScriptOnSketch(target, base,
    ScriptDone(target, base, <<<<"Circle">>>>, <<>>, "Circle added"))

sketch_add_arc_script(target, base) ==
  ScriptOnSketch(target, base,
    ScriptDone(target, base, <<<<"ArcOfCircle">>>>, <<>>, "Arc added"))

sketch_add_ellipse_script(target, base) ==
  ScriptOnSketch(target, base,
    ScriptDone(target, base, <<<<"Ellipse">>>>, <<>>, "Ellipse added"))

(* The script of sketch_close_edit: resetEdit() adds nothing. *)
sketch_close_edit_script(target, base) ==
  ScriptOnSketch(target, base,
    ScriptDone(target, base, <<>>, <<>>, "Closed editing mode"))

(* The four sides of the rectangle between its corners 0..3. *)
RectangleSides ==
  <<<<"LineSegment", 0, 1>>, <<"LineSegment", 1, 2>>,
    <<"LineSegment", 2, 3>>, <<"LineSegment", 3, 0>>>>

(* The script of sketch_add_rectangle: four lines, then four coincident    *)
(* and four perpendicular constraints.  It uses Sketcher without importing *)
(* it: where the interpreter does not provide the name, the script raises  *)
(* once the four lines are in the sketch.                                  *)
sketch_add_rectangle_script(target, base, provided) ==
  ScriptOnSketch(target, base,
    IF provided
      THEN ScriptDone(target, base, RectangleSides,
             [i \in 1..4 |-> <<"Coincident", base + i - 1, 2, base + (i % 4), 1>>]
               \o [i \in 1..4 |-> <<"Perpendicular", base + i - 1, base + (i % 4)>>],
             "Rectangle added")
      ELSE ScriptRaised(target, base, "name 'Sketcher' is not defined", RectangleSides))

(* The polyline script with the closing constraint added for every closed  *)
(* polyline.                                                               *)
sketch_add_polyline_script_closeall(target, base, n, closed) ==
  ScriptOnSketch(target, base,
    IF n < 2
      THEN ScriptPrinted(target, base, "Need at least 2 points for a polyline")
      ELSE LET segments == [i \in 1..(n - 1) |-> <<"LineSegment", i - 1, i>>]
               geometry == IF closed
                             THEN Append(segments, <<"LineSegment", n - 1, 0>>)
                             ELSE segments
               geo_indices == [i \in 1..Len(geometry) |-> base + i - 1]
               chain == [i \in 1..(Len(geo_indices) - 1) |->
                           <<"Coincident", geo_indices[i], 2, geo_indices[i + 1], 1>>]
               constraints ==
                 IF closed
                   THEN Append(chain, <<"Coincident", geo_indices[Len(geo_indices)], 2,
                                        geo_indices[1], 1>>)
                   ELSE chain
           IN ScriptDone(target, base, geometry, constraints, "Polyline added"))

(* The script of sketch_add_polyline on n points numbered 0..n-1: a line   *)
(* from each point to the next, for a closed polyline a line from the last *)
(* point to the first; a coincident constraint from the end (2) of each    *)
(* added line to the start (1) of the next; and for a closed polyline of   *)
(* more than two lines a coincident constraint from the end of the last    *)
(* line to the start of the first.                                         *)
sketch_add_polyline_script(target, base, n, closed) ==
  ScriptOnSketch(target, base,
    IF n < 2
      THEN ScriptPrinted(target, base, "Need at least 2 points for a polyline")
      ELSE LET segments == [i \in 1..(n - 1) |-> <<"LineSegment", i - 1, i>>]
               geometry == IF closed
                             THEN Append(segments, <<"LineSegment", n - 1, 0>>)
                             ELSE segments
               geo_indices == [i \in 1..Len(geometry) |-> base + i - 1]
               chain == [i \in 1..(Len(geo_indices) - 1) |->
                           <<"Coincident", geo_indices[i], 2, geo_indices[i + 1], 1>>]
               constraints ==
                 IF closed /\ Len(geo_indices) > 2
                   THEN Append(chain, <<"Coincident", geo_indices[Len(geo_indices)], 2,
                                        geo_indices[1], 1>>)
                   ELSE chain
           IN ScriptDone(target, base, geometry, constraints, "Polyline added"))

(* The script of sketch_add_regular_polygon: the sides test comes before   *)
(* the missing-sketch branch.                                              *)
sketch_add_regular_polygon_script(target, base, sides) ==
  IF target = "NoDocument"
    THEN ScriptRaised(target, base, "Unknown document", <<>>)
    ELSE IF target = "Sketch" /\ sides >= 3
      THEN LET geo_indices == [i \in 1..sides |-> base + i - 1] IN
           ScriptDone(target, base,
             [i \in 1..sides |-> <<"LineSegment", i - 1, i % sides>>],
             [i \in 1..sides |->
                <<"Coincident", geo_indices[i], 2, geo_indices[(i % sides) + 1], 1>>],
             "Regular polygon added")
      ELSE IF sides < 3
        THEN ScriptPrinted(target, base, "Polygon must have at least 3 sides")
        ELSE ScriptPrinted(target, base, "Sketch not found")

(* The script of sketch_add_constraint.  Its inner try catches whatever    *)
(* addConstraint or the missing name math raises and prints it; the branch *)
(* for no match prints and goes on to the success line.                    *)
sketch_add_constraint_script(target, base, arg, provided) ==
  LET constraint_type == arg.constraint_type
      geo_indices == arg.geometry_indices
      point_indices == arg.point_indices
      value == arg.value
      Added(constraint) ==
        [target |-> target, base |-> base, done |-> TRUE, geometry |-> <<>>,
         constraints |-> <<constraint>>,
         printed |-> <<<<constraint_type, " constraint added successfully">>>>,
         raised |-> FALSE, error |-> ""]
  IN
  ScriptOnSketch(target, base,
    IF constraint_type \in {"Horizontal", "Vertical"} /\ Len(geo_indices) = 1
      THEN Added(<<constraint_type, geo_indices[1]>>)
    ELSE IF constraint_type \in {"Parallel", "Perpendicular", "Tangent", "Equal"}
              /\ Len(geo_indices) = 2
      THEN Added(<<constraint_type, geo_indices[1], geo_indices[2]>>)
    ELSE IF constraint_type = "Coincident" /\ Len(geo_indices) = 2
              /\ Len(point_indices) = 2
      THEN Added(<<constraint_type, geo_indices[1], point_indices[1],
                   geo_indices[2], point_indices[2]>>)
    ELSE IF constraint_type = "Distance" /\ Len(geo_indices) = 2
              /\ Len(point_indices) = 2 /\ value # <<>>
      THEN Added(<<constraint_type, geo_indices[1], point_indices[1],
                   geo_indices[2], point_indices[2], value[1]>>)
    ELSE IF constraint_type = "Radius" /\ Len(geo_indices) = 1 /\ value # <<>>
      THEN Added(<<constraint_type, geo_indices[1], value[1]>>)
    ELSE IF constraint_type = "Angle" /\ Len(geo_indices) = 2 /\ value # <<>>
      THEN IF provided
             THEN Added(<<constraint_type, geo_indices[1], geo_indices[2],
                          <<"radians", value[1]>>>>)
             ELSE ScriptPrinted(target, base,
                    <<"Error adding constraint: ", "name 'math' is not defined">>)
    ELSE [target |-> target, base |-> base, done |-> FALSE, geometry |-> <<>>,
          constraints |-> <<>>,
          printed |-> << <<"Invalid constraint parameters for ", constraint_type>>,
                         <<constraint_type, " constraint added successfully">> >>,
          raised |-> FALSE, error |-> ""])

(* The remote's answer to execute_code for a script with the given effect: *)
(* a transport error, a failure result holding the uncaught exception, or  *)
(* a success result holding what the script printed.                       *)
ExecuteScript(effect) ==
  { [kind |-> "raise", success |-> FALSE, payload |-> <<>>, error |-> "",
     exc |-> "ConnectionRefusedError"],
    IF effect.raised
      THEN [kind |-> "dict", success |-> FALSE, payload |-> <<>>,
            error |-> effect.error, exc |-> ""]
      ELSE [kind |-> "dict", success |-> TRUE, payload |-> effect.printed,
            error |-> "", exc |-> ""] }

(* The guard outcomes the sketch scripts are explored with: a 3D view and  *)
(* a screenshot request that gives an image.                               *)
SketchGuardOutcomes ==
  { o \in GuardOutcomes : /\ o.view.type = "View3DInventor"
                          /\ o.cap.kind = "dict"
                          /\ o.shot = "iVBORw0KGgo" }

(* One invocation of a sketch handler whose script has the given effect on *)
(* the remote document; a transport error leaves the document as it was.   *)
SketchScriptCall(op, arg, effect, guard) ==
  \E p \in PingOutcomes, res \in ExecuteScript(effect) :
    LET o == IF res.kind = "raise" THEN NoGuard ELSE guard IN
    /\ Invoke(op, p, result_handler_body(op, arg, res, o.cap, o.shot),
              Inputs(arg, res, NoList, o))
    /\ script' = IF res.kind = "raise"
                   THEN [NoScript EXCEPT !.target = effect.target,
                                         !.base = effect.base]
                   ELSE effect

(* What a script can meet on the remote. *)
Bases == 0..MaxBase

(* Whether the remote interpreter provides a name the script uses without  *)
(* importing it; the question arises only when the script reaches the use. *)
Provided(reached) == IF reached THEN BOOLEAN ELSE {TRUE}

sketch_add_point_run ==
  \E guard \in SketchGuardOutcomes :
  \E arg \in SketchArgs("sketch_add_point"), target \in Targets, base \in Bases :
   \E provided \in Provided(target = "Sketch") :
    SketchScriptCall("sketch_add_point", arg,
                     sketch_add_point_script(target, base, provided), guard)

sketch_add_line_run ==
  \E guard \in SketchGuardOutcomes :
  \E arg \in SketchArgs("sketch_add_line"), target \in Targets, base \in Bases :
    SketchScriptCall("sketch_add_line", arg, sketch_add_line_script(target, base), guard)

sketch_add_circle_run ==
  \E guard \in SketchGuardOutcomes :
  \E arg \in SketchArgs("sketch_add_circle"), target \in Targets, base \in Bases :
    SketchScriptCall("sketch_add_circle", arg, sketch_add_circle_script(target, base), guard)

sketch_add_arc_run ==
  \E guard \in SketchGuardOutcomes :
  \E arg \in SketchArgs("sketch_add_arc"), target \in Targets, base \in Bases :
    SketchScriptCall("sketch_add_arc", arg, sketch_add_arc_script(target, base), guard)

sketch_add_rectangle_run ==
  \E guard \in SketchGuardOutcomes :
  \E arg \in SketchArgs("sketch_add_rectangle"), target \in Targets, base \in Bases :
   \E provided \in Provided(target = "Sketch") :
    SketchScriptCall("sketch_add_rectangle", arg,
                     sketch_add_rectangle_script(target, base, provided), guard)

sketch_add_polyline_run ==
  \E guard \in SketchGuardOutcomes :
  \E arg \in SketchArgs("sketch_add_polyline"), target \in Targets, base \in Bases :
    SketchScriptCall("sketch_add_polyline", arg,
                     sketch_add_polyline_script(target, base, arg.points, arg.closed), guard)

sketch_add_ellipse_run ==
  \E guard \in SketchGuardOutcomes :
  \E arg \in SketchArgs("sketch_add_ellipse"), target \in Targets, base \in Bases :
    SketchScriptCall("sketch_add_ellipse", arg, sketch_add_ellipse_script(target, base), guard)

sketch_add_regular_polygon_run ==
  \E guard \in SketchGuardOutcomes :
  \E arg \in SketchArgs("sketch_add_regular_polygon"), target \in Targets,
     base \in Bases :
    SketchScriptCall("sketch_add_regular_polygon", arg,
                     sketch_add_regular_polygon_script(target, base, arg.sides), guard)

sketch_add_constraint_run ==
  \E guard \in SketchGuardOutcomes :
  \E arg \in SketchArgs("sketch_add_constraint"), target \in Targets :
   \E provided \in Provided(/\ target = "Sketch"
                             /\ arg.constraint_type = "Angle"
                             /\ Len(arg.geometry_indices) = 2
                             /\ arg.value # <<>>) :
    SketchScriptCall("sketch_add_constraint", arg,
                     sketch_add_constraint_script(target, Len(arg.geometry_indices),
                                                  arg, provided), guard)

sketch_close_edit_run ==
  \E guard \in SketchGuardOutcomes :
  \E arg \in SketchArgs("sketch_close_edit"), target \in Targets, base \in Bases :
    SketchScriptCall("sketch_close_edit", arg, sketch_close_edit_script(target, base), guard)

(* A serving server whose startup established the session. *)
InitSketch ==
  /\ only_text_feedback \in BOOLEAN
  /\ freecad_connection = 1
  /\ clients = 1
  /\ pinged = {1}
  /\ phase = "serving"
  /\ last = NoCall
  /\ script = NoScript
  /\ threads = [t \in Threads |-> IdleThread]

NextSketch ==
  \/ sketch_add_point_run
  \/ sketch_add_line_run
  \/ sketch_add_circle_run
  \/ sketch_add_arc_run
  \/ sketch_add_rectangle_run
  \/ sketch_add_polyline_run
  \/ sketch_add_ellipse_run
  \/ sketch_add_regular_polygon_run
  \/ sketch_close_edit_run

SpecSketch == InitSketch /\ [][NextSketch]_vars

(* The constraint handler on its own. *)
NextConstraint == sketch_add_constraint_run

SpecConstraint == InitSketch /\ [][NextConstraint]_vars

-----------------------------------------------------------------------------
(* get_freecad_connection() line by line, with several callers *)

(* Handler invocations that overlap, with no handle held: nothing in the   *)
(* module serializes them, and no lock guards the global.                  *)
InitRace ==
  /\ only_text_feedback = FALSE
  /\ freecad_connection = NULL
  /\ clients = 0
  /\ pinged = {}
  /\ phase = "concurrent"
  /\ last = NoCall
  /\ script = NoScript
  /\ threads = [t \in Threads |-> IdleThread]

(* Caller t moves to pc, leaving the call with an outcome or staying in. *)
Step(t, pc, outcome, ret) ==
  threads' = [threads EXCEPT ![t] = [pc |-> pc, ret |-> ret, outcome |-> outcome]]

(* A handler calls get_freecad_connection(). *)
get_freecad_connection_enter(t) ==
  /\ phase = "concurrent"
  /\ threads[t].pc = "idle"
  /\ Step(t, "line127", "none", NULL)
  /\ UNCHANGED <<only_text_feedback, freecad_connection, clients, pinged, phase, last,
                 script>>

(* Line 127: if _freecad_connection is None. *)
get_freecad_connection_line127(t) ==
  /\ threads[t].pc = "line127"
  /\ Step(t, IF freecad_connection = NULL THEN "line128" ELSE "line135", "none", NULL)
  /\ UNCHANGED <<only_text_feedback, freecad_connection, clients, pinged, phase, last,
                 script>>

(* Line 128: a client is constructed and stored in the global. *)
get_freecad_connection_line128(t) ==
  /\ threads[t].pc = "line128"
  /\ clients < MaxClients
  /\ clients' = clients + 1
  /\ freecad_connection' = clients + 1
  /\ Step(t, "line129", "none", NULL)
  /\ UNCHANGED <<only_text_feedback, pinged, phase, last, script>>

(* Line 129: the global is read again and pinged; on None the attribute    *)
(* lookup raises, a transport error of ping() leaves the function, a falsy *)
(* answer goes on to line 131.                                             *)
get_freecad_connection_line129(t) ==
  /\ threads[t].pc = "line129"
  /\ IF freecad_connection = NULL
       THEN /\ Step(t, "idle", "raised", NULL)
            /\ UNCHANGED pinged
       ELSE \E p \in PingResults :
              /\ pinged' = IF p = "true" THEN pinged \cup {freecad_connection} ELSE pinged
              /\ Step(t, IF p = "true" THEN "line135"
                           ELSE IF p = "false" THEN "line131" ELSE "idle",
                         IF p = "raise" THEN "raised" ELSE "none", NULL)
  /\ UNCHANGED <<only_text_feedback, freecad_connection, clients, phase, last, script>>

(* Lines 131-133: the global is reset and the exception raised. *)
get_freecad_connection_line131(t) ==
  /\ threads[t].pc = "line131"
  /\ freecad_connection' = NULL
  /\ Step(t, "idle", "raised", NULL)
  /\ UNCHANGED <<only_text_feedback, clients, pinged, phase, last, script>>

(* Line 135: return _freecad_connection, whatever the global holds now. *)
get_freecad_connection_line135(t) ==
  /\ threads[t].pc = "line135"
  /\ Step(t, "idle", "returned", freecad_connection)
  /\ UNCHANGED <<only_text_feedback, freecad_connection, clients, pinged, phase, last,
                 script>>

NextRace ==
  \E t \in Threads :
    \/ get_freecad_connection_enter(t)
    \/ get_freecad_connection_line127(t)
    \/ get_freecad_connection_line128(t)
    \/ get_freecad_connection_line129(t)
    \/ get_freecad_connection_line131(t)
    \/ get_freecad_connection_line135(t)

SpecRace == InitRace /\ [][NextRace]_vars

-----------------------------------------------------------------------------
(* Properties *)

Returned == last.op \in Handlers /\ last.outcome = "returned"

Images(env) == {i \in 1..Len(env) : env[i].type = "image"}

FinalItem(env) == env[Len(env)]

HasItem(env, item) == \E i \in 1..Len(env) : env[i] = item

(* A failure text item: a text whose last fragment is the error. *)
IsFailureText(item, err) ==
  /\ item.type = "text"
  /\ Len(item.text) = 2
  /\ item.text[2] = err

(* C1: in text-only mode the envelope returned by every handler, get_view  *)
(* included, contains no image item.                                       *)
C1_TextOnlyNoImage ==
  (only_text_feedback /\ Returned) => Images(last.envelope) = {}

(* C2: a handler invocation whose get_freecad_connection() raised returns  *)
(* a failure text item; the connection error does not leave the handler.   *)
C2_NoSessionFailureText ==
  (last.op \in Handlers /\ last.got = NULL) =>
    /\ last.outcome = "returned"
    /\ Len(last.envelope) >= 1
    /\ last.envelope[1].type = "text"

(* C3: when a Session Client request raises during a handler invocation,   *)
(* the handler returns a failure text item carrying the exception and does *)
(* not raise.                                                              *)
C3_RequestExceptionCaught ==
  (last.op \in Handlers /\ last.primaryRaised) =>
    /\ last.outcome = "returned"
    /\ Len(last.envelope) = 1
    /\ IsFailureText(last.envelope[1], last.exc)

(* C4: after a get_freecad_connection() call entered without a handle      *)
(* whose ping returned false or raised, the global handle is null.         *)
C4_FailedPingResetsHandle ==
  (last.held = NULL /\ last.ping \in {"false", "raise"}) => freecad_connection = NULL

(* C5: between calls, a non-null handle has had a ping that returned true. *)
C5_HandlePinged ==
  freecad_connection # NULL => freecad_connection \in pinged

(* C6: shutdown completes without raising, with or without a handle, and   *)
(* leaves the global handle null.                                          *)
C6_ShutdownReleases ==
  last.op = "shutdown" => (last.outcome = "returned" /\ freecad_connection = NULL)

(* C7: a get_freecad_connection() call that follows a successful one, with *)
(* no shutdown between them, returns the same handle, issues no ping and   *)
(* constructs no client.                                                   *)
C7_SecondGetReuses ==
  [][(last.got # NULL /\ last'.op \in Handlers) =>
       /\ last'.got = last.got
       /\ last'.ping = "none"
       /\ \A i \in 1..Len(last'.requests) : last'.requests[i] # "ping"
       /\ clients' = clients
       /\ freecad_connection' = freecad_connection]_vars

(* A handler was entered with a handle whose ping had returned true, and   *)
(* got that handle back without a ping.                                    *)
C7_Witness ==
  /\ last.op \in Handlers
  /\ last.held # NULL
  /\ last.held \in pinged
  /\ last.got = last.held
  /\ last.ping = "none"

(* C8: every returned envelope has at least one item, at most one image    *)
(* item, and never both an image and the preview-unavailable text.         *)
C8_EnvelopeShape ==
  Returned =>
    /\ Len(last.envelope) >= 1
    /\ Cardinality(Images(last.envelope)) <= 1
    /\ ~(/\ Images(last.envelope) # {}
         /\ \/ HasItem(last.envelope, TextContent(PreviewNote))
            \/ HasItem(last.envelope, TextContent(CannotGetScreenshot)))

(* A handler returned its primary text followed by an image. *)
C8_Witness ==
  /\ Returned
  /\ Len(last.envelope) = 2
  /\ last.envelope[1].type = "text"
  /\ last.envelope[2].type = "image"

NoShot == last.shot = None \/ last.shot = NotCalled

(* C9 as stated: for a handler that requests a screenshot, outside         *)
(* text-only mode and with no screenshot obtained, the final item is the   *)
(* note of add_screenshot_if_available.                                    *)
C9_NoShotNoteLast ==
  (Returned /\ last.op \in ScreenshotHandlers /\ ~only_text_feedback /\ NoShot) =>
    FinalItem(last.envelope) = TextContent(PreviewNote)

(* C9 amended: for a handler that requests a screenshot, outside text-only *)
(* mode and with no screenshot obtained, the final item is a text and not  *)
(* an image: the note of add_screenshot_if_available when the handler is   *)
(* not get_view and none of its requests raised, get_view's own fixed text *)
(* for get_view, and the handler's failure text when its primary request   *)
(* raised.                                                                 *)
C9_NoShotTextLast ==
  (Returned /\ last.op \in ScreenshotHandlers /\ ~only_text_feedback /\ NoShot) =>
    /\ FinalItem(last.envelope).type = "text"
    /\ (last.op # "get_view" /\ ~last.primaryRaised) =>
         (/\ Len(last.envelope) = 2
          /\ FinalItem(last.envelope) = TextContent(PreviewNote))
    /\ last.op = "get_view" =>
         last.envelope = <<TextContent(CannotGetScreenshot)>>
    /\ last.primaryRaised =>
         (/\ Len(last.envelope) = 1
          /\ IsFailureText(FinalItem(last.envelope), last.exc))

(* A handler of the create_object shape ran its guard, got None, and       *)
(* returned outside text-only mode.                                        *)
C9_Witness ==
  /\ Returned
  /\ last.op = "create_object"
  /\ ~only_text_feedback
  /\ last.shot = None
  /\ ~last.primaryRaised
  /\ FinalItem(last.envelope) = TextContent(PreviewNote)

(* C10: for a handler that requests a screenshot, outside text-only mode   *)
(* and when the guard returned a screenshot, the final item is an          *)
(* image/png item holding exactly that value, and it is the only item      *)
(* after the primary text.                                                 *)
C10_ShotImageLast ==
  (Returned /\ last.op \in ScreenshotHandlers /\ ~only_text_feedback /\ ~NoShot) =>
    /\ FinalItem(last.envelope) = ImageContent(last.shot, "image/png")
    /\ Cardinality(Images(last.envelope)) = 1
    /\ Len(last.envelope) <= 2


Requested(req) == \E i \in 1..Len(last.requests) : last.requests[i] = req

(* A handler that builds its envelope with add_screenshot_if_available     *)
(* returned.                                                               *)
BuilderReturned == Returned /\ last.op \in ResultHandlers \cup QueryHandlers

(* C11 as stated: in text-only mode the envelope of a handler that would   *)
(* otherwise carry a screenshot holds, after the primary text, a text note *)
(* explaining the missing image.                                           *)
C11_TextOnlyNote ==
  (BuilderReturned /\ only_text_feedback /\ ~last.primaryRaised) =>
    /\ Len(last.envelope) >= 2
    /\ last.envelope[2].type = "text"

(* C11 amended: in text-only mode the envelope of a handler that builds it *)
(* with add_screenshot_if_available is the primary text item alone, with   *)
(* no image and no substituted note.                                       *)
C11_TextOnlyPrimaryAlone ==
  (BuilderReturned /\ only_text_feedback) =>
    /\ Len(last.envelope) = 1
    /\ last.envelope[1].type = "text"
    /\ last.envelope[1] # TextContent(PreviewNote)

(* In text-only mode a handler whose guard returned a screenshot returned  *)
(* its primary text.                                                       *)
C11_Witness ==
  /\ BuilderReturned
  /\ only_text_feedback
  /\ last.op = "edit_object"
  /\ last.shot = "iVBORw0KGgo"
  /\ Len(last.envelope) = 1

GuardCall == last.op = "get_active_screenshot"

(* C12: get_active_screenshot never raises, whatever the remote does, and  *)
(* returns None whenever one of its two remote requests raised.            *)
C12_GuardNeverRaises ==
  GuardCall =>
    /\ last.outcome = "returned"
    /\ ~last.guardRaised
    /\ (last.cap.kind = "raise" \/ last.shotRes = "raise") => last.shot = None

(* The capability check passed and the screenshot request raised. *)
C12_Witness ==
  /\ GuardCall
  /\ last.cap.kind = "dict"
  /\ last.shotRes = "raise"
  /\ last.shot = None

(* C13: with an active view whose type is in the denylist or which has no  *)
(* saveImage, get_active_screenshot returns None and does not issue the    *)
(* screenshot request.                                                     *)
C13_DenylistNoRequest ==
  (GuardCall /\ last.view.active
     /\ (last.view.type \in unsupported_views \/ ~last.view.saveImage)) =>
    /\ last.shot = None
    /\ ~Requested("get_active_screenshot")
    /\ last.shotRes = NotCalled

(* The capability script ran on a spreadsheet view and reported it. *)
C13_Witness ==
  /\ GuardCall
  /\ last.view.type = "SpreadsheetGui::SheetView"
  /\ last.cap.kind = "dict" /\ last.cap.hasSuccess /\ last.cap.success
  /\ last.shot = None
  /\ last.requests = <<"capability_check">>

(* C14: when the capability script completes on its 'No active view'       *)
(* branch, get_active_screenshot returns None without issuing the          *)
(* screenshot request.                                                     *)
C14_NoViewNoRequest ==
  (GuardCall /\ ~last.view.active
     /\ last.cap.kind = "dict" /\ last.cap.hasSuccess /\ last.cap.success) =>
    /\ last.shot = None
    /\ ~Requested("get_active_screenshot")

(* C15: when the screenshot request is issued and raises or returns None   *)
(* or an empty string, the guard returns None and no image item with empty *)
(* data is in the envelope.                                                *)
C15_EmptyShotAbsent ==
  (Requested("get_active_screenshot") /\ last.shotRes \in {"raise", None, ""}) =>
    /\ last.shot = None
    /\ \A i \in Images(last.envelope) : last.envelope[i].data # ""

(* C16: create_document, once it has its session, returns exactly one text *)
(* item for every outcome of its request and in both modes, issues neither *)
(* guard request, and on success names the document the remote reported.   *)
C16_CreateDocumentOneText ==
  (last.op = "create_document" /\ last.got # NULL) =>
    /\ last.outcome = "returned"
    /\ Len(last.envelope) = 1
    /\ last.envelope[1].type = "text"
    /\ ~Requested("capability_check")
    /\ ~Requested("get_active_screenshot")
    /\ (last.res.kind = "dict" /\ last.res.success) =>
         last.envelope[1].text = <<"Document '", last.res.payload, "' created successfully">>

(* create_document returned for a remote success. *)
C16_Witness ==
  /\ last.op = "create_document"
  /\ last.res.kind = "dict" /\ last.res.success
  /\ last.envelope = <<TextContent(<<"Document '", "Foo", "' created successfully">>)>>

C18_PartsListOneText ==
  (last.op = "get_parts_list" /\ last.lst.kind = "list") =>
    /\ last.outcome = "returned"
    /\ Len(last.envelope) = 1
    /\ last.envelope[1].type = "text"
    /\ ~Requested("capability_check")
    /\ ~Requested("get_active_screenshot")
    /\ last.lst.items = <<>> =>
         (/\ last.envelope[1].text = NoPartsFound
          /\ last.envelope[1].text # JsonDumps(<<>>))
    /\ last.lst.items # <<>> => last.envelope[1].text = JsonDumps(last.lst.items)

(* get_parts_list met an empty catalog. *)
C18_Witness ==
  /\ last.op = "get_parts_list"
  /\ last.lst.kind = "list"
  /\ last.lst.items = <<>>
  /\ last.outcome = "returned"

(* The handler's primary request is among the requests of the call c. *)
PrimaryIssued(c) ==
  \E i \in 1..Len(c.requests) :
    c.requests[i] = IF c.op = "get_view" THEN "capability_check" ELSE PrimaryRequest(c.op)

Pings(c) == Cardinality({i \in 1..Len(c.requests) : c.requests[i] = "ping"})

(* C19: startup makes exactly one connection attempt and always ends in    *)
(* the serving state, whatever the ping does; and a handler invoked while  *)
(* the remote answers (its ping, if issued, returns true) obtains a        *)
(* session and issues its primary request.                                 *)
C19_StartupNonFatal ==
  [][/\ phase = "boot" =>
          (/\ phase' = "serving"
           /\ last'.op = "startup"
           /\ last'.outcome = "returned"
           /\ Pings(last') = 1
           /\ clients' = clients + 1)
     /\ (phase = "serving" /\ phase' = "serving" /\ last'.op \in Handlers
           /\ last'.ping \notin {"false", "raise"}) =>
          (/\ last'.got # NULL
           /\ PrimaryIssued(last'))]_vars

(* The client of startup was never pinged successfully, and a later        *)
(* handler constructed a second client, pinged it and issued its request.  *)
C19_Witness ==
  /\ phase = "serving"
  /\ last.op \in Handlers
  /\ clients = 2
  /\ 1 \notin pinged
  /\ last.held = NULL
  /\ last.ping = "true"
  /\ last.got = 2
  /\ PrimaryIssued(last)

(* C20: for a handler that reads a Remote Result, the first item is the    *)
(* success text exactly when the success flag is true, and otherwise the   *)
(* failure text holding the remote's error string.                         *)
C20_FirstItemFollowsFlag ==
  (Returned /\ last.op \in ResultHandlers \cup {"create_document"}
     /\ last.res.kind = "dict") =>
    /\ last.envelope[1].type = "text"
    /\ last.res.success <=>
         last.envelope[1].text = SuccessText(last.op, last.arg, last.res)
    /\ ~last.res.success <=>
         last.envelope[1].text = <<FailPrefix(last.op), last.res.error>>
    /\ last.res.success <=> last.envelope[1].text[1] # FailPrefix(last.op)

(* delete_object met a remote failure and returned its error. *)
C20_Witness ==
  /\ Returned
  /\ last.op = "delete_object"
  /\ last.res.kind = "dict" /\ ~last.res.success
  /\ last.envelope[1].text = <<"Failed to delete object: ", "DuplicateName">>

(* The position of the first request req among the requests of the call c, *)
(* 0 when the call did not issue it.                                       *)
FirstIndex(c, req) ==
  IF \E i \in 1..Len(c.requests) : c.requests[i] = req
    THEN CHOOSE i \in 1..Len(c.requests) :
           /\ c.requests[i] = req
           /\ \A j \in 1..(i - 1) : c.requests[j] # req
    ELSE 0

(* C21: in every handler invocation that issues both its primary request   *)
(* and a screenshot request, get_objects and get_object included, the      *)
(* primary request comes first, then the capability check, then the        *)
(* screenshot request.                                                     *)
C21_PrimaryThenGuard ==
  (Returned /\ last.op \in ResultHandlers \cup QueryHandlers
     /\ Requested(PrimaryRequest(last.op)) /\ Requested("get_active_screenshot")) =>
    /\ FirstIndex(last, PrimaryRequest(last.op)) < FirstIndex(last, "capability_check")
    /\ FirstIndex(last, "capability_check") < FirstIndex(last, "get_active_screenshot")

(* C22: once a handle is held, no handler invocation changes or clears it, *)
(* whatever its outcome: the global, the set of constructed clients and    *)
(* the set of pinged clients stay as they are, and no ping is issued.      *)
C22_HeldHandleKept ==
  [][(freecad_connection # NULL /\ phase = "serving" /\ phase' = "serving") =>
       /\ freecad_connection' = freecad_connection
       /\ clients' = clients
       /\ pinged' = pinged
       /\ Pings(last') = 0]_vars

(* A handler ran on a held handle, its primary request met a transport     *)
(* error, and the handle is still the one held on entry.                   *)
C22_Witness ==
  /\ Returned
  /\ last.held # NULL
  /\ last.primaryRaised
  /\ freecad_connection = last.held

(* C23: in a handler that takes its screenshot after the primary request,  *)
(* when the primary request raises, the handler issues neither the         *)
(* capability check nor the screenshot request and returns exactly one     *)
(* item, the failure text carrying the exception text, in both modes.      *)
C23_PrimaryRaiseOneItem ==
  (last.op \in ResultHandlers /\ last.got # NULL /\ last.res.kind = "raise") =>
    /\ last.outcome = "returned"
    /\ Len(last.envelope) = 1
    /\ IsFailureText(last.envelope[1], last.res.exc)
    /\ last.envelope[1].text[1] = FailPrefix(last.op)
    /\ ~Requested("capability_check")
    /\ ~Requested("get_active_screenshot")
    /\ last.shot = NotCalled

(* insert_part_from_library met a transport error in text+image mode and   *)
(* returned its failure text alone.                                        *)
C23_Witness ==
  /\ last.op = "insert_part_from_library"
  /\ last.got # NULL
  /\ last.res.kind = "raise"
  /\ ~only_text_feedback
  /\ last.envelope =
       <<TextContent(<<"Failed to insert part from library: ", "ConnectionRefusedError">>)>>
  /\ last.requests[Len(last.requests)] = "insert_part_from_library"

(* C24: the requests a handler issues do not depend on the feedback mode.  *)
(* The same invocation with the same remote behaviour issues the same      *)
(* requests in the same order in text-only mode as in text+image mode,     *)
(* the capability check and the screenshot request included, ends the same *)
(* way, and the two envelopes agree on their first item.                   *)
C24_RequestsModeIndependent ==
  [][(phase = "serving" /\ phase' = "replayed") =>
       /\ only_text_feedback' # only_text_feedback
       /\ last'.requests = last.requests
       /\ last'.outcome = last.outcome
       /\ last'.shot = last.shot
       /\ (last.envelope = <<>>) <=> (last'.envelope = <<>>)
       /\ last.envelope # <<>> => last'.envelope[1] = last.envelope[1]]_vars

(* The text-only run of a call that obtained a screenshot: the capability  *)
(* check and the screenshot request were sent, the image was obtained, and *)
(* the envelope holds the primary text alone.                              *)
C24_Witness ==
  /\ phase = "replayed"
  /\ only_text_feedback
  /\ last.op \in ResultHandlers
  /\ Requested("capability_check")
  /\ Requested("get_active_screenshot")
  /\ last.shot = "iVBORw0KGgo"
  /\ Len(last.envelope) = 1

(* The sketch geometry handlers. *)
GeometryHandlers ==
  {"sketch_add_point", "sketch_add_line", "sketch_add_circle", "sketch_add_arc",
   "sketch_add_rectangle", "sketch_add_polyline", "sketch_add_ellipse",
   "sketch_add_regular_polygon", "sketch_close_edit"}

(* C25: a sketch geometry handler returns its success text only if its     *)
(* script took the branch that performs the operation; when the sketch     *)
(* does not exist, the polygon has fewer than 3 sides or the polyline has  *)
(* fewer than 2 points, the primary text is the failure text.              *)
C25_SuccessTextOnlyIfDone ==
  (Returned /\ last.op \in GeometryHandlers /\ ~script.done) =>
    last.envelope[1].text[1] = FailPrefix(last.op)

(* C26: on an existing sketch sketch_add_constraint returns the text       *)
(* "<type> constraint added" only if its script added exactly one          *)
(* constraint, of that type; arguments that match no branch add no         *)
(* constraint and do not get the success text.                             *)
C26_ConstraintTextOnlyIfAdded ==
  (/\ Returned
   /\ last.op = "sketch_add_constraint"
   /\ script.target = "Sketch"
   /\ last.envelope[1].text =
        <<last.arg.constraint_type, " constraint added to sketch '",
          last.arg.sketch_name, "'">>) =>
    /\ Len(script.constraints) = 1
    /\ script.constraints[1][1] = last.arg.constraint_type

(* The polyline script ran on an existing sketch with at least 2 points. *)
PolylineRan ==
  /\ last.op = "sketch_add_polyline"
  /\ last.res.kind = "dict"
  /\ script.target = "Sketch"
  /\ last.arg.points >= 2

(* The index addGeometry gave the i-th line the script added. *)
Geo(i) == script.base + i - 1

(* The end of the i-th added line is constrained coincident with the start *)
(* of the j-th.                                                            *)
Joined(i, j) ==
  \E k \in 1..Len(script.constraints) :
    script.constraints[k] = <<"Coincident", Geo(i), 2, Geo(j), 1>>

C28_OneClientPingedReturn ==
  [][/\ clients' > clients => freecad_connection = NULL
     /\ \A t \in Threads :
          (threads[t].pc = "line135" /\ threads'[t].outcome = "returned") =>
            threads'[t].ret \in pinged]_vars

====
